---- MODULE Spec2Model ----
(***************************************************************************)
(* Node-network serialization of houmy-tools (core/nodeserializer.py):     *)
(* serializeNodesToString packs a set of scene items into a wrapped,       *)
(* versioned, checksummed envelope string and deserializeStringToNodes     *)
(* validates such a string and recreates the items under a target parent.  *)
(*                                                                         *)
(* The host application (the hou module) is the environment: the scene is  *)
(* the set `items`, the definition registry is `defs`, and a host          *)
(* primitive may raise (the `fault` input of an operation).  Encodings     *)
(* are modelled symbolically: a text is the value it encodes together      *)
(* with the flags that say whether each decoding stage accepts it.         *)
(***************************************************************************)
EXTENDS Integers, Sequences, FiniteSets, TLC

VARIABLES hostMajor, items, defs, tempFiles, wire, ret, calls,
          EMPTY_SNIPPETS_DATA, settingsPath, dbFiles, backups,
          saved, intact, snip, saves

\* the snippet database of core/snippetiomanager.py: the class attribute
\* EMPTY_SNIPPETS_DATA, the stored setting "snippets_database/path", the
\* database files and their backup files, the record of the last call, and
\* the history of the saves (`saved`, `intact`, `saves`)
snippetVars ==
  <<EMPTY_SNIPPETS_DATA, settingsPath, dbFiles, backups, saved, intact, snip, saves>>

vars == <<hostMajor, items, defs, tempFiles, wire, ret, calls,
          EMPTY_SNIPPETS_DATA, settingsPath, dbFiles, backups,
          saved, intact, snip, saves>>

(***************************************************************************)
(* Bounds of the model.                                                    *)
(***************************************************************************)
\* calls of serializeNodesToString and deserializeStringToNodes in one behaviour
MaxCalls == 2
\* longest list of items handed to serializeNodesToString
MaxSel == 2
\* the version dispatch is evaluated for the host major versions 0..MaxMajor
MaxMajor == 20

(***************************************************************************)
(* Program constants.                                                      *)
(***************************************************************************)
CURRENT_FORMAT_VERSION == <<2, 2>>

\* host major versions explored: below the supported bands, H10-15, H16+
HostMajors == {9, 15, 16}

\* paths are sequences of characters, so that str.startswith is a prefix test
hfs == <<"/", "h">>
StockLib == <<"/", "h", "/", "s">>
SiblingLib == <<"/", "h", "2", "/", "x">>
UserLib == <<"/", "u", "/", "y">>
TempDir == <<"/", "t", "/">>
TempNames == <<"0", "1", "2", "3">>

(***************************************************************************)
(* The scene.  /obj is the root container (id 0).                          *)
(***************************************************************************)
Root == 0

InitItems ==
  { [id |-> 1, parent |-> 0, node |-> TRUE, type |-> "sibgeo", name |-> "geo1", parm |-> 1, inputs |-> {}],
    [id |-> 2, parent |-> 1, node |-> TRUE, type |-> "stock", name |-> "a", parm |-> 1, inputs |-> {}],
    [id |-> 3, parent |-> 1, node |-> TRUE, type |-> "user", name |-> "b", parm |-> 2, inputs |-> {2}],
    [id |-> 4, parent |-> 1, node |-> FALSE, type |-> "sticky", name |-> "note", parm |-> 0, inputs |-> {}],
    [id |-> 5, parent |-> 0, node |-> TRUE, type |-> "geo", name |-> "geo2", parm |-> 1, inputs |-> {}] }

\* hou.NodeType.category().name()
TypeCategory(t) == IF t \in {"geo", "sibgeo"} THEN "Object" ELSE "Sop"

\* hou.NodeType.childTypeCategory().name()
TypeChildCategory(t) ==
  CASE t = "ropnet" -> "Driver"
    [] t = "chopnet" -> "ChopNet"
    [] t = "vopnet" -> "Vop"
    [] OTHER -> "Sop"

\* node types that exist without an asset definition
BuiltinTypes == {"geo"}

InitDefs ==
  << [type |-> "stock", category |-> "Sop", lib |-> StockLib, preferred |-> FALSE, body |-> "stock"],
     [type |-> "user", category |-> "Sop", lib |-> UserLib, preferred |-> FALSE, body |-> "user"],
     [type |-> "sibgeo", category |-> "Object", lib |-> SiblingLib, preferred |-> FALSE, body |-> "sibgeo"] >>

NoDef == [type |-> "", category |-> "", lib |-> <<>>, preferred |-> FALSE, body |-> ""]

(***************************************************************************)
(* Helpers on sets and sequences.                                          *)
(***************************************************************************)
Min(S) == CHOOSE m \in S : \A x \in S : m <= x
Max(S) == CHOOSE m \in S : \A x \in S : m >= x

RECURSIVE SetToSeq(_)
SetToSeq(S) == IF S = {} THEN <<>> ELSE <<Min(S)>> \o SetToSeq(S \ {Min(S)})

Range(q) == {q[i] : i \in 1..Len(q)}

RECURSIVE Repeat(_, _)
Repeat(q, n) == IF n <= 0 THEN <<>> ELSE q \o Repeat(q, n - 1)

(***************************************************************************)
(* Host: the item model.                                                   *)
(***************************************************************************)
ItemIn(its, i) == CHOOSE r \in its : r.id = i

\* item.parent()
ParentOf(i) == ItemIn(items, i).parent

\* parent.allItems(): the ids of the items directly inside p
AllItems(its, p) == {r.id : r \in {x \in its : x.parent = p}}

\* node.allSubChildren(): every nested descendant node, depth first
RECURSIVE AllSubChildren(_, _)
RECURSIVE SubChildrenOfEach(_, _)
AllSubChildren(its, i) ==
  SubChildrenOfEach(its, SetToSeq({c \in AllItems(its, i) : ItemIn(its, c).node}))
SubChildrenOfEach(its, q) ==
  IF q = <<>> THEN <<>>
  ELSE <<Head(q)>> \o AllSubChildren(its, Head(q)) \o SubChildrenOfEach(its, Tail(q))

\* the containers a decode may target: /obj and the network nodes
Containers == {Root} \cup {r.id : r \in {x \in items : x.node /\ TypeCategory(x.type) = "Object"}}

\* the child category a container reports, by either API path
ChildCategoryName(n) == IF n = Root THEN "Object" ELSE TypeChildCategory(ItemIn(items, n).type)

\* hou.applicationVersion()
applicationVersion == <<hostMajor, 0, 0>>

\* a resolver that reads the context from the container on every host
getChildContextDirect(node, houver) ==
  IF 10 <= houver[1]
    THEN [ok |-> TRUE, name |-> ChildCategoryName(node), via |-> "node.childTypeCategory"]
  ELSE [ok |-> FALSE, name |-> "", via |-> "none"]

(***************************************************************************)
(* getChildContext: the context resolver, dispatching on the host band.    *)
(***************************************************************************)
getChildContext(node, houver) ==
  IF houver[1] >= 16
    THEN [ok |-> TRUE, name |-> ChildCategoryName(node), via |-> "type.childTypeCategory"]
  ELSE IF 10 <= houver[1] /\ houver[1] <= 15
    THEN [ok |-> TRUE, name |-> ChildCategoryName(node), via |-> "node.childTypeCategory"]
  ELSE [ok |-> FALSE, name |-> "", via |-> "none"]

(***************************************************************************)
(* Host: the definition registry.                                          *)
(***************************************************************************)
DefIndexes(d, cat, t) == {i \in 1..Len(d) : d[i].type = t /\ d[i].category = cat}

\* nodeType.definition(): the preferred definition, else the latest installed
CurrentDef(d, cat, t) ==
  LET I == DefIndexes(d, cat, t)
      P == {i \in I : d[i].preferred}
  IN IF I = {} THEN NoDef ELSE IF P # {} THEN d[Max(P)] ELSE d[Max(I)]

\* a lookup that finds no node type
NodeTypeExistsNever(d, cat, t) == FALSE

\* hou.nodeType(category, name) is not None
NodeTypeExists(d, cat, t) ==
  (t \in BuiltinTypes /\ TypeCategory(t) = cat) \/ DefIndexes(d, cat, t) # {}

(***************************************************************************)
(* Encodings.                                                              *)
(***************************************************************************)
\* base64.b64encode(bytes).decode('utf-8')
b64encode(bytes) == [b64ok |-> TRUE, blob |-> bytes]

\* hashlib.sha1(text).hexdigest(): the digest names the text it was taken of
sha1hex(text) == [of |-> text]

\* str.startswith
StartsWith(s, prefix) ==
  Len(prefix) <= Len(s) /\ \A i \in 1..Len(prefix) : s[i] = prefix[i]

\* tempfile.mkstemp(): a path that names no existing file
mkstemp(live) ==
  TempDir \o <<TempNames[Min({k \in 1..Len(TempNames) : (TempDir \o <<TempNames[k]>>) \notin live})]>>

(***************************************************************************)
(* Strings in transit.  A string is the envelope it wraps and, per         *)
(* unwrapping stage, whether that stage accepts it.                        *)
(***************************************************************************)
EmptyCode == b64encode(<<>>)

\* An envelope is the JSON value a string wraps: `object` says whether the
\* value is a JSON object, `absent` names the keys the object lacks (the
\* value a record holds for an absent key is never read).
NoEnvelope ==
  [algtype |-> 0, version |-> 0, minor |-> 0, houver |-> <<0, 0, 0>>, context |-> "",
   code |-> EmptyCode, hdaList |-> <<>>, chsum |-> sha1hex(EmptyCode),
   object |-> TRUE, absent |-> {}]

\* a string that is not base64 of anything
NoString == [b64ok |-> FALSE, bz2ok |-> FALSE, jsonok |-> FALSE, data |-> NoEnvelope]

\* json.dumps, bz2.compress, base64.urlsafe_b64encode
WrapEnvelope(data) == [b64ok |-> TRUE, bz2ok |-> TRUE, jsonok |-> TRUE, data |-> data]

(***************************************************************************)
(* Host primitives may raise: the n-th invocation of primitive `at` in a   *)
(* call does.  For a load primitive n-1 items are created before it does.  *)
(***************************************************************************)
NoFault == [at |-> "none", n |-> 0]

FaultsAt(points, most) == {[at |-> a, n |-> k] : a \in points, k \in 1..most}

\* temp files that no remove deletes
LiveAfterNoRemove(live, cur, ev) ==
  IF \E i \in 1..Len(ev) : ev[i] = "mkstemp" THEN live \cup {mkstemp(live)} ELSE live

\* the temp files left after a call's events, each remove closing the latest mkstemp
RECURSIVE LiveAfter(_, _, _)
LiveAfter(live, cur, ev) ==
  IF ev = <<>> THEN live
  ELSE IF Head(ev) = "mkstemp"
    THEN LiveAfter(live \cup {mkstemp(live)}, mkstemp(live), Tail(ev))
  ELSE IF Head(ev) = "remove"
    THEN LiveAfter(live \ {cur}, cur, Tail(ev))
  ELSE LiveAfter(live, cur, Tail(ev))

(***************************************************************************)
(* Host: saving items to a binary file.  The blob holds one record per     *)
(* saved item and per item nested in one, connections kept between saved   *)
(* items only.                                                             *)
(***************************************************************************)
RECURSIVE Inside(_, _)
Inside(its, i) ==
  LET C == AllItems(its, i) IN C \cup UNION {Inside(its, c) : c \in C}

SavedRecord(its, top, all, i) ==
  LET r == ItemIn(its, i)
  IN [key |-> i, up |-> IF i \in top THEN 0 ELSE r.parent, node |-> r.node, type |-> r.type,
      name |-> r.name, parm |-> r.parm, inputs |-> r.inputs \cap all]

HostSave(its, top) ==
  LET all == top \cup UNION {Inside(its, i) : i \in top}
      q == SetToSeq(all)
  IN [k \in 1..Len(q) |-> SavedRecord(its, top, all, q[k])]

\* parent.saveChildrenToFile(nodeItems, (), path): H10-15, nodes only
saveChildrenToFile(its, nodeItems) == HostSave(its, Range(nodeItems))

\* parent.saveItemsToFile(nodes, path, False): H16+
saveItemsToFile(its, nodes) == HostSave(its, Range(nodes))

(***************************************************************************)
(* serializeNodesToString.                                                 *)
(***************************************************************************)
\* a filter that keeps the items that are not nodes
NodesOnlyInverted(its, q) == SelectSeq(q, LAMBDA i : ~ItemIn(its, i).node)

\* lines 155, 191: [item for item in nodes if isinstance(item, hou.Node)]
NodesOnly(its, q) == SelectSeq(q, LAMBDA i : ItemIn(its, i).node)

\* lines 156-159: each node item followed by its nested nodes
RECURSIVE ScanList(_, _)
ScanList(its, q) ==
  IF q = <<>> THEN <<>>
  ELSE <<Head(q)>> \o AllSubChildren(its, Head(q)) \o ScanList(its, Tail(q))

\* line 167: the definition travels unless its library path starts with $HFS
NeedsEmbedding(libPath) == ~StartsWith(libPath, hfs)

\* a collection that embeds every definition, wherever its library is
RECURSIVE CollectAssetsEmbeddingAll(_, _, _)
CollectAssetsEmbeddingAll(its, d, scan) ==
  IF scan = <<>> THEN <<>>
  ELSE LET t == ItemIn(its, Head(scan)).type
           definition == CurrentDef(d, TypeCategory(t), t)
           rest == CollectAssetsEmbeddingAll(its, d, Tail(scan))
       IN IF definition = NoDef THEN rest
          ELSE <<[type |-> t, category |-> TypeCategory(t), code |-> b64encode(definition.body)]>> \o rest

\* lines 160-180
RECURSIVE CollectAssets(_, _, _)
CollectAssets(its, d, scan) ==
  IF scan = <<>> THEN <<>>
  ELSE LET t == ItemIn(its, Head(scan)).type
           definition == CurrentDef(d, TypeCategory(t), t)
           rest == CollectAssets(its, d, Tail(scan))
       IN IF definition = NoDef THEN rest
          ELSE IF NeedsEmbedding(definition.lib)
            THEN <<[type |-> t, category |-> TypeCategory(t), code |-> b64encode(definition.body)]>> \o rest
          ELSE rest

\* a selection that keeps major version 16 in the older band
AlgTypeForLateSwitch(houver) ==
  IF 10 <= houver[1] /\ houver[1] <= 16 THEN 1
  ELSE IF houver[1] > 16 THEN 2
  ELSE 0

\* lines 137-146: 0 stands for the refusal of a host that is too old
AlgTypeFor(houver) ==
  IF 10 <= houver[1] /\ houver[1] <= 15 THEN 1
  ELSE IF houver[1] >= 16 THEN 2
  ELSE 0

EncodeFailure(err, events, fault) ==
  [err |-> err, out |-> NoString, events |-> events, fault |-> fault]

\* lines 134-225: the encode of a non-empty list of items of one parent
EncodeItems(nodes, transferAssets, fault) ==
  IF AlgTypeFor(applicationVersion) = 0
    THEN EncodeFailure("UnsupportedHostVersion", <<>>, NoFault)
  ELSE
    LET parent == ParentOf(nodes[1])
        algType == AlgTypeFor(applicationVersion)
        hdaList == IF transferAssets
                     THEN CollectAssets(items, defs, ScanList(items, NodesOnly(items, nodes)))
                     ELSE <<>>
        copied == <<"mkstemp", "copyToHDAFile", "remove">>
        saveCall == IF algType = 1 THEN "saveChildrenToFile" ELSE "saveItemsToFile"
        nodeCode == IF algType = 1 THEN saveChildrenToFile(items, NodesOnly(items, nodes))
                    ELSE saveItemsToFile(items, nodes)
        encodedCode == b64encode(nodeCode)
        context == getChildContext(parent, applicationVersion)
        data == [algtype |-> algType,
                 version |-> CURRENT_FORMAT_VERSION[1],
                 minor |-> CURRENT_FORMAT_VERSION[2],
                 houver |-> applicationVersion,
                 context |-> context.name,
                 code |-> encodedCode,
                 hdaList |-> hdaList,
                 chsum |-> sha1hex(encodedCode),
                 object |-> TRUE, absent |-> {}]
    IN IF fault.at = "copyToHDAFile" /\ fault.n <= Len(hdaList)
         THEN EncodeFailure("HostError", Repeat(copied, fault.n), fault)
       ELSE IF fault.at = "save" /\ fault.n = 1
         THEN EncodeFailure("HostError",
                            Repeat(copied, Len(hdaList)) \o <<"mkstemp", saveCall, "remove">>, fault)
       ELSE [err |-> "", out |-> WrapEnvelope(data),
             events |-> Repeat(copied, Len(hdaList)) \o <<"mkstemp", saveCall, "remove", context.via>>,
             fault |-> NoFault]

\* an encode that drops the items of another parent instead of refusing
serializeNodesToStringFiltering(nodes, transferAssets, fault) ==
  IF nodes = <<>> THEN EncodeFailure("EmptyInput", <<>>, NoFault)
  ELSE EncodeItems(SelectSeq(nodes, LAMBDA i : ParentOf(i) = ParentOf(nodes[1])),
                   transferAssets, fault)

\* lines 126-132: the checks on the items, then the encode
serializeNodesToString(nodes, transferAssets, fault) ==
  IF nodes = <<>> THEN EncodeFailure("EmptyInput", <<>>, NoFault)
  ELSE IF \E i \in 1..Len(nodes) : ParentOf(nodes[i]) # ParentOf(nodes[1])
    THEN EncodeFailure("HeterogeneousParent", <<>>, NoFault)
  ELSE EncodeItems(nodes, transferAssets, fault)

(***************************************************************************)
(* Host: loading items from a binary file.  Every record of the blob       *)
(* becomes a new item under the target (or under the new item made for     *)
(* its saved parent); `count` records are read before the primitive ends.  *)
(***************************************************************************)
NextId(its) == Max({0} \cup {r.id : r \in its}) + 1

BlobPos(blob, key) == CHOOSE k \in 1..Len(blob) : blob[k].key = key

HostLoad(its, target, blob, count) ==
  LET base == NextId(its)
      made == {k \in 1..Len(blob) : k <= count}
      newId(key) == base + BlobPos(blob, key) - 1
  IN { [id |-> base + k - 1,
        parent |-> IF blob[k].up = 0 THEN target ELSE newId(blob[k].up),
        node |-> blob[k].node, type |-> blob[k].type, name |-> blob[k].name,
        parm |-> blob[k].parm,
        inputs |-> {newId(i) : i \in {j \in blob[k].inputs : BlobPos(blob, j) \in made}}]
       : k \in made }

\* parentNode.loadChildrenFromFile(path): H10-15
loadChildrenFromFile(its, target, blob, count) == HostLoad(its, target, blob, count)

\* parentNode.loadItemsFromFile(path): H16+
loadItemsFromFile(its, target, blob, count) == HostLoad(its, target, blob, count)

(***************************************************************************)
(* deserializeStringToNodes.                                               *)
(***************************************************************************)
\* an unwrapping that lets a string through that does not parse as JSON
UnwrapFailureJsonUnchecked(s) ==
  IF ~s.b64ok THEN "base64"
  ELSE IF ~s.bz2ok THEN "bz2"
  ELSE "none"

\* lines 244-249: the stage of base64 -> bz2 -> JSON that rejects s, if any
UnwrapFailure(s) ==
  IF ~s.b64ok THEN "base64"
  ELSE IF ~s.bz2ok THEN "bz2"
  ELSE IF ~s.jsonok THEN "json"
  ELSE "none"

\* an error that carries the two contexts in each other's place
InvalidContextErrorSwapped(parentNode, expectedContext) ==
  [currentContext |-> expectedContext,
   expectedContext |-> getChildContext(parentNode, applicationVersion).name]

\* lines 46-55: the error carries the target's context and the payload's
InvalidContextError(parentNode, expectedContext) ==
  [currentContext |-> getChildContext(parentNode, applicationVersion).name,
   expectedContext |-> expectedContext]

\* gates with the algorithm check moved behind the others
GatesLegacyLast(data, parentNode) ==
  LET context == getChildContext(parentNode, applicationVersion)
  IN IF data.version > CURRENT_FORMAT_VERSION[1] THEN "FutureFormat"
     ELSE IF ~context.ok THEN "UnsupportedHostVersion"
     ELSE IF context.name # data.context THEN "ContextMismatch"
     ELSE IF sha1hex(data.code) # data.chsum THEN "ChecksumMismatch"
     ELSE IF data.algtype = 0 THEN "UnsupportedAlgorithm"
     ELSE "ok"

\* gates with the checksum compared before the context
GatesChecksumFirst(data, parentNode) ==
  LET context == getChildContext(parentNode, applicationVersion)
  IN IF data.algtype = 0 THEN "UnsupportedAlgorithm"
     ELSE IF data.version > CURRENT_FORMAT_VERSION[1] THEN "FutureFormat"
     ELSE IF sha1hex(data.code) # data.chsum THEN "ChecksumMismatch"
     ELSE IF ~context.ok THEN "UnsupportedHostVersion"
     ELSE IF context.name # data.context THEN "ContextMismatch"
     ELSE "ok"

\* gates that never compare the checksum
GatesNoChecksum(data, parentNode) ==
  LET context == getChildContext(parentNode, applicationVersion)
  IN IF data.algtype = 0 THEN "UnsupportedAlgorithm"
     ELSE IF data.version > CURRENT_FORMAT_VERSION[1] THEN "FutureFormat"
     ELSE IF ~context.ok THEN "UnsupportedHostVersion"
     ELSE IF context.name # data.context THEN "ContextMismatch"
     ELSE "ok"

\* gates that accept one major version more than the supported one
GatesVersionOffByOne(data, parentNode) ==
  LET context == getChildContext(parentNode, applicationVersion)
  IN IF data.algtype = 0 THEN "UnsupportedAlgorithm"
     ELSE IF data.version > CURRENT_FORMAT_VERSION[1] + 1 THEN "FutureFormat"
     ELSE IF ~context.ok THEN "UnsupportedHostVersion"
     ELSE IF context.name # data.context THEN "ContextMismatch"
     ELSE IF sha1hex(data.code) # data.chsum THEN "ChecksumMismatch"
     ELSE "ok"

\* gates that never compare the context
GatesContextUnchecked(data, parentNode) ==
  IF data.algtype = 0 THEN "UnsupportedAlgorithm"
  ELSE IF data.version > CURRENT_FORMAT_VERSION[1] THEN "FutureFormat"
  ELSE IF sha1hex(data.code) # data.chsum THEN "ChecksumMismatch"
  ELSE "ok"

\* gates that also refuse a minor version above the current one
GatesMinorEnforced(data, parentNode) ==
  LET context == getChildContext(parentNode, applicationVersion)
  IN IF data.algtype = 0 THEN "UnsupportedAlgorithm"
     ELSE IF data.version > CURRENT_FORMAT_VERSION[1] THEN "FutureFormat"
     ELSE IF data.minor > CURRENT_FORMAT_VERSION[2] THEN "FutureFormat"
     ELSE IF ~context.ok THEN "UnsupportedHostVersion"
     ELSE IF context.name # data.context THEN "ContextMismatch"
     ELSE IF sha1hex(data.code) # data.chsum THEN "ChecksumMismatch"
     ELSE "ok"

\* gates that refuse the current major version with the later ones
GatesCurrentVersionRefused(data, parentNode) ==
  LET context == getChildContext(parentNode, applicationVersion)
  IN IF data.algtype = 0 THEN "UnsupportedAlgorithm"
     ELSE IF data.version >= CURRENT_FORMAT_VERSION[1] THEN "FutureFormat"
     ELSE IF ~context.ok THEN "UnsupportedHostVersion"
     ELSE IF context.name # data.context THEN "ContextMismatch"
     ELSE IF sha1hex(data.code) # data.chsum THEN "ChecksumMismatch"
     ELSE "ok"

\* lines 251-274: the gates, in the order the code evaluates them.  Each
\* field is read by subscript where its gate is evaluated, outside the try
\* block of lines 244-249: the subscript raises TypeError on a JSON value
\* that is not an object and KeyError on an object that lacks the key.
Gates(data, parentNode) ==
  LET context == getChildContext(parentNode, applicationVersion)
  IN IF ~data.object THEN "TypeError"
     ELSE IF "algtype" \in data.absent THEN "KeyError"
     ELSE IF data.algtype = 0 THEN "UnsupportedAlgorithm"
     ELSE IF "version" \in data.absent THEN "KeyError"
     ELSE IF data.version > CURRENT_FORMAT_VERSION[1] THEN "FutureFormat"
     ELSE IF ~context.ok THEN "UnsupportedHostVersion"
     ELSE IF "context" \in data.absent THEN "KeyError"
     ELSE IF context.name # data.context THEN "ContextMismatch"
     ELSE IF "code" \in data.absent \/ "chsum" \in data.absent THEN "KeyError"
     ELSE IF sha1hex(data.code) # data.chsum THEN "ChecksumMismatch"
     ELSE "ok"

\* a marking that changes no flag
SetIsPreferredNoOp(d, idx) == d

\* definition.setIsPreferred(True) on the definition at index idx
SetIsPreferred(d, idx) ==
  [i \in 1..Len(d) |->
     IF d[i].type = d[idx].type /\ d[i].category = d[idx].category
       THEN [d[i] EXCEPT !.preferred = (i = idx)]
       ELSE d[i]]

\* an install loop that, when it skips a record, still marks the existing
\* definition of its type preferred
RECURSIVE InstallAssetsPrefersSkipped(_, _, _, _, _, _, _, _)
InstallAssetsPrefersSkipped(hdaList, k, d, live, ignore, force, fault, done) ==
  IF k > Len(hdaList) THEN [err |-> "", defs |-> d, events |-> <<>>, fault |-> NoFault]
  ELSE
    LET hdaItem == hdaList[k]
        installed == Append(d, [type |-> hdaItem.type, category |-> hdaItem.category,
                                lib |-> mkstemp(live), preferred |-> force,
                                body |-> hdaItem.code.blob])
        found == DefIndexes(d, hdaItem.category, hdaItem.type)
        marked == IF force /\ found # {} THEN SetIsPreferred(d, Max(found)) ELSE d
    IN IF ignore /\ NodeTypeExists(d, hdaItem.category, hdaItem.type)
         THEN InstallAssetsPrefersSkipped(hdaList, k + 1, marked, live, ignore, force, fault,
                                          done)
       ELSE
         LET rest == InstallAssetsPrefersSkipped(hdaList, k + 1, installed, live, ignore,
                                                 force, fault, done + 1)
         IN [rest EXCEPT !.events =
               (IF force THEN <<"mkstemp", "installFile", "setIsPreferred", "remove">>
                ELSE <<"mkstemp", "installFile", "remove">>) \o @]

\* lines 276-299: install the records of hdaList from position k on
RECURSIVE InstallAssets(_, _, _, _, _, _, _, _)
InstallAssets(hdaList, k, d, live, ignore, force, fault, done) ==
  IF k > Len(hdaList) THEN [err |-> "", defs |-> d, events |-> <<>>, fault |-> NoFault]
  ELSE
    LET hdaItem == hdaList[k]
        tempPath == mkstemp(live)
        installed == Append(d, [type |-> hdaItem.type, category |-> hdaItem.category,
                                lib |-> tempPath, preferred |-> FALSE,
                                body |-> hdaItem.code.blob])
        preferred == SetIsPreferred(installed, Len(installed))
    IN IF ignore /\ NodeTypeExists(d, hdaItem.category, hdaItem.type)
         THEN InstallAssets(hdaList, k + 1, d, live, ignore, force, fault, done)
       ELSE IF ~hdaItem.code.b64ok
         THEN [err |-> "Error", defs |-> d, events |-> <<>>, fault |-> NoFault]
       ELSE IF fault.at = "installFile" /\ fault.n = done + 1
         THEN [err |-> "HostError", defs |-> d,
               events |-> <<"mkstemp", "installFile", "remove">>, fault |-> fault]
       ELSE IF force /\ fault.at = "setIsPreferred" /\ fault.n = done + 1
         THEN [err |-> "HostError", defs |-> installed,
               events |-> <<"mkstemp", "installFile", "setIsPreferred", "remove">>,
               fault |-> fault]
       ELSE
         LET rest == InstallAssets(hdaList, k + 1, IF force THEN preferred ELSE installed,
                                   live, ignore, force, fault, done + 1)
         IN [rest EXCEPT !.events =
               (IF force THEN <<"mkstemp", "installFile", "setIsPreferred", "remove">>
                ELSE <<"mkstemp", "installFile", "remove">>) \o @]

\* a result that lists the target's items without removing the snapshot
NewItemsUndiffed(after, parentNode, oldItems) == SetToSeq(AllItems(after, parentNode))

\* lines 322-323: the items of the target that are not in the snapshot
NewItems(after, parentNode, oldItems) ==
  SetToSeq({i \in AllItems(after, parentNode) : i \notin oldItems})

\* a failure that puts the registry back as the call found it
DecodeFailureRollingBack(err, events, fault, d, ctxErr) ==
  [err |-> err, created |-> <<>>, events |-> events, fault |-> fault, items |-> items,
   defs |-> defs, old |-> {}, loaded |-> {}, ctxErr |-> ctxErr]

\* lines 244-304: decode raises; what it installed stays installed
DecodeFailure(err, events, fault, d, ctxErr) ==
  [err |-> err, created |-> <<>>, events |-> events, fault |-> fault, items |-> items,
   defs |-> d, old |-> {}, loaded |-> {}, ctxErr |-> ctxErr]

NoContextError == [currentContext |-> "", expectedContext |-> ""]

\* a handler that catches nothing
ExceptLoadWarningNever(raised) == FALSE

\* line 314: except hou.LoadWarning catches the warning and nothing else
ExceptLoadWarning(raised) == raised = "LoadWarning"

deserializeStringToNodes(s, parentNode, ignoreHdasIfAlreadyDefined, forcePreferHdas, fault) ==
  IF UnwrapFailure(s) # "none"
    THEN DecodeFailure("CorruptPayload", <<>>, NoFault, defs, NoContextError)
  ELSE
    LET data == s.data
        algType == data.algtype
        gate == Gates(data, parentNode)
        inst == InstallAssets(data.hdaList, 1, defs, tempFiles, ignoreHdasIfAlreadyDefined,
                              forcePreferHdas, fault, 0)
        oldItems == AllItems(items, parentNode)
        nodeCode == data.code.blob
        raises == fault.at \in {"LoadWarning", "load"} /\ algType \in {1, 2}
        count == IF raises THEN fault.n - 1 ELSE Len(nodeCode)
        loaded == IF algType = 1 THEN loadChildrenFromFile(items, parentNode, nodeCode, count)
                  ELSE IF algType = 2 THEN loadItemsFromFile(items, parentNode, nodeCode, count)
                  ELSE {}
        loadCall == IF algType = 1 THEN <<"loadChildrenFromFile">>
                    ELSE IF algType = 2 THEN <<"loadItemsFromFile">>
                    ELSE <<>>
        after == items \cup loaded
        caught == raises /\ ExceptLoadWarning(fault.at)
        loadEvents == inst.events \o <<"allItems", "mkstemp">> \o loadCall
                        \o (IF caught THEN <<"print">> ELSE <<>>) \o <<"remove">>
        newItems == NewItems(after, parentNode, oldItems)
    IN IF gate = "ContextMismatch"
         THEN DecodeFailure(gate, <<>>, NoFault, defs,
                            InvalidContextError(parentNode, data.context))
       ELSE IF gate # "ok"
         THEN DecodeFailure(gate, <<>>, NoFault, defs, NoContextError)
       ELSE IF inst.err # ""
         THEN DecodeFailure(inst.err, inst.events, inst.fault, inst.defs, NoContextError)
       ELSE IF ~data.code.b64ok
         THEN DecodeFailure("Error", inst.events \o <<"allItems">>, NoFault, inst.defs,
                            NoContextError)
       ELSE IF raises /\ ~caught
         THEN [err |-> "HostError", created |-> <<>>, events |-> loadEvents, fault |-> fault,
               items |-> after, defs |-> inst.defs, old |-> oldItems,
               loaded |-> {r.id : r \in loaded}, ctxErr |-> NoContextError]
       ELSE [err |-> "", created |-> newItems, events |-> loadEvents \o <<"allItems">>,
             fault |-> IF raises THEN fault ELSE NoFault,
             items |-> after, defs |-> inst.defs, old |-> oldItems,
             loaded |-> {r.id : r \in loaded}, ctxErr |-> NoContextError]

(***************************************************************************)
(* What transit can make of a string before it is decoded: the string      *)
(* itself, a string one unwrapping stage rejects, or an envelope with      *)
(* fields changed.                                                         *)
(***************************************************************************)
\* code with the content at one position changed
Flips(code) == {[code EXCEPT !.blob[i].parm = 0 - @ - 1] : i \in 1..Len(code.blob)}

\* code whose base64 padding is broken
BadPadding(code) == [code EXCEPT !.b64ok = FALSE]

\* a digest that is the digest of neither code
WrongDigest(code) == sha1hex([b64ok |-> FALSE, blob |-> <<>>])

\* code and chsum: as sent; chsum changed; code changed with chsum left as
\* written; a badly padded code under its own digest
CodeChsumVariants(d) ==
  {<<d.code, d.chsum>>, <<d.code, WrongDigest(d.code)>>,
   <<BadPadding(d.code), sha1hex(BadPadding(d.code))>>}
  \cup {<<c, d.chsum>> : c \in Flips(d.code)}

EnvelopeVariants(d) ==
  { [d EXCEPT !.algtype = x[1], !.version = x[2], !.code = x[3][1], !.chsum = x[3][2]]
    : x \in {0, d.algtype, 3}
            \X ((CURRENT_FORMAT_VERSION[1] - 1)..(CURRENT_FORMAT_VERSION[1] + 1))
            \X CodeChsumVariants(d) }

\* an envelope written by another session, on a host of the H16+ band: one
\* node of a type that session defines, which the list it encoded held
\* twice, so that the definition is embedded twice
ForeignCode ==
  b64encode(<<[key |-> 1, up |-> 0, node |-> TRUE, type |-> "ext", name |-> "x", parm |-> 3,
               inputs |-> {}]>>)

ForeignRecord == [type |-> "ext", category |-> "Sop", code |-> b64encode("ext")]

ForeignEnvelope ==
  [algtype |-> 2, version |-> CURRENT_FORMAT_VERSION[1], minor |-> CURRENT_FORMAT_VERSION[2],
   houver |-> <<16, 0, 0>>, context |-> "Sop", code |-> ForeignCode,
   hdaList |-> <<ForeignRecord, ForeignRecord>>,
   chsum |-> sha1hex(ForeignCode), object |-> TRUE, absent |-> {}]

\* the keys decode reads by subscript
RequiredFields == {"algtype", "version", "context", "code", "chsum"}

\* JSON that parses and is not an envelope: the object of d with one key
\* removed, and a value that is not an object
IncompleteVariants(d) ==
  {[d EXCEPT !.absent = {f}] : f \in RequiredFields} \cup {[d EXCEPT !.object = FALSE]}

\* the strings that can reach decode when s was sent
Transit(s) ==
  { [s EXCEPT !.b64ok = FALSE], [s EXCEPT !.bz2ok = FALSE], [s EXCEPT !.jsonok = FALSE] }
  \cup (IF UnwrapFailure(s) = "none"
          THEN {WrapEnvelope(d) : d \in EnvelopeVariants(s.data) \cup IncompleteVariants(s.data)}
          ELSE {})

(***************************************************************************)
(* The snippet database (core/snippetiomanager.py) as the tool finds it.   *)
(***************************************************************************)
SNIPPETS_DB_VERSION == "1.1"

\* the number of rolling backup files to keep
MAX_BACKUPS == 5

\* the database files a session works with: the default one under the user's
\* settings directory and one the user may choose
DefaultDb == "snippets.json"
DbPaths == {DefaultDb, "a.json"}

\* the setting "snippets_database/path" has no value
NoPath == ""

\* a path at which no file exists
NoFile == [version |-> "", snippets |-> <<"no file">>]

\* the class attribute as the class body builds it
EmptySnippetsData == [version |-> SNIPPETS_DB_VERSION, snippets |-> <<>>]

\* no file-system call fails
NoSnippetFault == [at |-> "none", n |-> 0]

\* the last call: the database path it worked on, the content
\* setSnippetsDatabasePath wrote into a file it created (NoFile when it
\* created none), the failure the file system answered with, whether a
\* message was displayed, and the returned value
NoSnippetCall ==
  [op |-> "none", path |-> NoPath, written |-> NoFile, fault |-> NoSnippetFault,
   shown |-> FALSE, ok |-> TRUE, out |-> <<>>]

\* a fresh process of a user who never stored a snippet: no setting, no
\* database file and no backup file
InitSnippets ==
  /\ EMPTY_SNIPPETS_DATA = EmptySnippetsData
  /\ settingsPath = NoPath
  /\ dbFiles = [p \in DbPaths |-> NoFile]
  /\ backups = [p \in DbPaths |-> [i \in 1..MAX_BACKUPS |-> NoFile]]
  /\ saved = [p \in DbPaths |-> <<>>]
  /\ intact = [p \in DbPaths |-> TRUE]
  /\ snip = NoSnippetCall
  /\ saves = 0

(***************************************************************************)
(* State.  `wire` is the string the last successful encode returned and    *)
(* the items it was made of; `ret` describes the last call: its            *)
(* arguments, its outcome, the host primitives it invoked in order and     *)
(* the scene and registry it started from.                                 *)
(***************************************************************************)
NoCall ==
  [op |-> "none", err |-> "", nodes |-> <<>>, transfer |-> FALSE, s |-> NoString,
   target |-> Root, ignore |-> FALSE, force |-> FALSE, out |-> NoString, created |-> <<>>,
   events |-> <<>>, fault |-> NoFault, itemsBefore |-> InitItems, defsBefore |-> InitDefs,
   old |-> {}, loaded |-> {}, ctxErr |-> NoContextError, into |-> Root]

\* nothing is in transit
NoWire == [str |-> NoString, nodes |-> {}]

\* the string of the other session, waiting to be pasted
ForeignWire == [str |-> WrapEnvelope(ForeignEnvelope), nodes |-> {}]

\* the state after the tool is loaded into a session: the scene and the
\* registry of the session, no temp file, and either nothing to paste or the
\* string of the other session
Init ==
  /\ hostMajor \in HostMajors
  /\ items = InitItems
  /\ defs = InitDefs
  /\ tempFiles = {}
  /\ wire \in {NoWire, ForeignWire}
  /\ ret = NoCall
  /\ calls = 0
  /\ InitSnippets

Selections == UNION {[1..n -> {r.id : r \in InitItems}] : n \in 0..MaxSel}

\* a call is made when the previous one has returned to its caller
Idle == ret.op = "none" /\ calls < MaxCalls

Encode(nodes, transferAssets, fault) ==
  \E r \in {serializeNodesToString(nodes, transferAssets, fault)} :
     /\ Idle
     /\ ret' = [NoCall EXCEPT !.op = "encode", !.err = r.err, !.nodes = nodes,
                              !.transfer = transferAssets, !.out = r.out, !.events = r.events,
                              !.fault = r.fault, !.itemsBefore = items, !.defsBefore = defs]
     /\ tempFiles' = LiveAfter(tempFiles, <<>>, r.events)
     /\ wire' = IF r.err = "" THEN [str |-> r.out, nodes |-> Range(nodes)] ELSE wire
     /\ calls' = calls + 1
     /\ UNCHANGED <<hostMajor, items, defs>>
     /\ UNCHANGED snippetVars

Decode(s, parentNode, ignoreHdasIfAlreadyDefined, forcePreferHdas, fault) ==
  \E r \in {deserializeStringToNodes(s, parentNode, ignoreHdasIfAlreadyDefined,
                                      forcePreferHdas, fault)} :
     /\ Idle
     /\ items' = r.items
     /\ defs' = r.defs
     /\ tempFiles' = LiveAfter(tempFiles, <<>>, r.events)
     /\ ret' = [NoCall EXCEPT !.op = "decode", !.err = r.err, !.s = s, !.target = parentNode,
                              !.ignore = ignoreHdasIfAlreadyDefined, !.force = forcePreferHdas,
                              !.created = r.created, !.events = r.events, !.fault = r.fault,
                              !.itemsBefore = items, !.defsBefore = defs, !.old = r.old,
                              !.loaded = r.loaded, !.ctxErr = r.ctxErr]
     /\ calls' = calls + 1
     /\ UNCHANGED <<hostMajor, wire>>
     /\ UNCHANGED snippetVars

\* The caller takes the outcome of the call and the next call can be made.
\* The envelope is transit data, discarded after decode.
Return ==
  /\ ret.op # "none"
  /\ ret' = NoCall
  /\ wire' = IF ret.op = "decode" THEN NoWire ELSE wire
  /\ UNCHANGED <<hostMajor, items, defs, tempFiles, calls>>
  /\ UNCHANGED snippetVars

\* whether decode gets as far as reading its flags and invoking host primitives
PassesGates(s, parentNode) ==
  UnwrapFailure(s) = "none" /\ Gates(s.data, parentNode) = "ok"

\* whether encode gets as far as invoking host primitives
PassesValidation(nodes) ==
  /\ nodes # <<>>
  /\ \A i \in 1..Len(nodes) : ParentOf(nodes[i]) = ParentOf(nodes[1])
  /\ AlgTypeFor(applicationVersion) # 0

\* the faults that can occur in an encode of these items: a copy of one of
\* the definitions to embed raises, or the save does
EncodeFaultsFor(nodes, transferAssets) ==
  {NoFault, [at |-> "save", n |-> 1]}
  \cup (IF transferAssets
          THEN FaultsAt({"copyToHDAFile"},
                        Len(CollectAssets(items, defs, ScanList(items, NodesOnly(items, nodes)))))
          ELSE {})

\* the faults that can occur in a decode of this envelope: the install of
\* one of its records raises, or marking it preferred does, or the load
\* raises a warning or an error after it created some of the items
DecodeFaultsFor(data, forcePreferHdas) ==
  {NoFault}
  \cup FaultsAt({"installFile"}, Len(data.hdaList))
  \cup (IF forcePreferHdas THEN FaultsAt({"setIsPreferred"}, Len(data.hdaList)) ELSE {})
  \cup (IF data.algtype \in {1, 2} /\ data.code.b64ok
          THEN FaultsAt({"LoadWarning", "load"}, Len(data.code.blob) + 1)
          ELSE {})

\* the flags are read only while records of hdaList are installed
FlagsFor(data) == IF data.hdaList = <<>> THEN {<<TRUE, FALSE>>} ELSE BOOLEAN \X BOOLEAN

(***************************************************************************)
(* A call is explored for every input that can change its outcome.         *)
(* serializeNodesToString reads transferAssets, and the host can raise,    *)
(* only once the checks on the items have passed;                          *)
(* deserializeStringToNodes reads its flags, and the host can raise, only  *)
(* once the gates have passed.  A call that fails before is explored for   *)
(* one value of them (the parameters' defaults).                           *)
(***************************************************************************)
Next ==
  \/ /\ Idle
     /\ \E nodes \in Selections :
          IF PassesValidation(nodes)
            THEN \E transferAssets \in BOOLEAN :
                   \E fault \in EncodeFaultsFor(nodes, transferAssets) :
                     Encode(nodes, transferAssets, fault)
            ELSE Encode(nodes, TRUE, NoFault)
  \/ /\ Idle
     /\ \E s \in Transit(wire.str), parentNode \in Containers :
          IF PassesGates(s, parentNode)
            THEN \E flags \in FlagsFor(s.data) :
                   \E fault \in DecodeFaultsFor(s.data, flags[2]) :
                     Decode(s, parentNode, flags[1], flags[2], fault)
            ELSE Decode(s, parentNode, TRUE, FALSE, NoFault)
  \/ Return

Spec == Init /\ [][Next]_vars

(***************************************************************************)
(* Properties of decode: the gates.                                        *)
(***************************************************************************)
\* the call that has just been made is a decode of a string that unwraps
Unwrapped == ret.op = "decode" /\ ret.s.b64ok /\ ret.s.bz2ok /\ ret.s.jsonok

\* the call that has just been made is a decode of a string that unwraps
\* to a well-formed envelope: an object that has every key decode reads
DecodedEnvelope == Unwrapped /\ ret.s.data.object /\ ret.s.data.absent = {}

\* the context of the decode's target as the host reports it
TargetContext == ChildCategoryName(ret.target)

\* the host is of a band the tool supports
HostSupported == hostMajor >= 10

\* the call left the scene and the registry as they were
NothingChanged == items = ret.itemsBefore /\ defs = ret.defsBefore

\* the gates the decoded envelope violates, by their position in the order
ViolatedGates ==
  LET data == ret.s.data
  IN {g \in 1..4 :
        \/ g = 1 /\ data.algtype = 0
        \/ g = 2 /\ data.version > 2
        \/ g = 3 /\ HostSupported /\ data.context # TargetContext
        \/ g = 4 /\ data.chsum # sha1hex(data.code)}

GateError(g) ==
  CASE g = 1 -> "UnsupportedAlgorithm"
    [] g = 2 -> "FutureFormat"
    [] g = 3 -> "ContextMismatch"
    [] g = 4 -> "ChecksumMismatch"

\* C1: a decode of a well-formed envelope with algtype 0 fails with
\* UnsupportedAlgorithm whatever the other fields and the target are, the
\* checksum being right included; it installs no definition, creates no item
\* and invokes no host primitive.
C1_LegacyAlwaysRejected ==
  (DecodedEnvelope /\ ret.s.data.algtype = 0)
    => /\ ret.err = "UnsupportedAlgorithm"
       /\ NothingChanged
       /\ ret.events = <<>>
       /\ ret.created = <<>>

\* an algtype-0 envelope that passes every other gate has been rejected
C1_Witness ==
  /\ DecodedEnvelope
  /\ ViolatedGates = {1}
  /\ HostSupported
  /\ ret.err = "UnsupportedAlgorithm"

\* C2: the gates are evaluated in the order algorithm, major version,
\* context, checksum: the error of a decode of an envelope that violates
\* several gates (or one, on a supported host) is the error of the earliest
\* gate it violates.
C2_EarliestGateWins ==
  (/\ DecodedEnvelope
   /\ ViolatedGates # {}
   /\ (Cardinality(ViolatedGates) >= 2 \/ HostSupported))
    => ret.err = GateError(Min(ViolatedGates))

\* wrong context and bad checksum together have given ContextMismatch
C2_Witness ==
  /\ DecodedEnvelope
  /\ ViolatedGates = {3, 4}
  /\ ret.err = "ContextMismatch"

\* C3: an envelope that passes the algorithm, version and context gates and
\* whose chsum is not the digest of its code is rejected with
\* ChecksumMismatch and nothing is loaded; so is, in particular, the envelope
\* the encode produced with its code changed at one position and its chsum
\* left as written.
C3_ChecksumSensitive ==
  /\ (DecodedEnvelope /\ 4 \in ViolatedGates /\ ViolatedGates \subseteq {4} /\ HostSupported)
       => (ret.err = "ChecksumMismatch" /\ NothingChanged /\ ret.events = <<>>)
  /\ (/\ DecodedEnvelope
      /\ wire.nodes # {}
      /\ \E c \in Flips(wire.str.data.code) : ret.s.data = [wire.str.data EXCEPT !.code = c]
      /\ TargetContext = wire.str.data.context)
       => ret.err = "ChecksumMismatch"

\* an encoded envelope with its code changed at one position was decoded
\* into a target of its context and rejected
C3_Witness ==
  /\ DecodedEnvelope
  /\ wire.nodes # {}
  /\ \E c \in Flips(wire.str.data.code) : ret.s.data = [wire.str.data EXCEPT !.code = c]
  /\ TargetContext = wire.str.data.context
  /\ ret.err = "ChecksumMismatch"

\* C4: a decode of an envelope of context A (algtype 1 or 2, version up to
\* the supported major) into a target whose context resolves to B fails
\* with ContextMismatch carrying currentContext = B and expectedContext = A
\* when A # B, and never fails with ContextMismatch when A = B.
C4_ContextEnforced ==
  (/\ DecodedEnvelope
   /\ ret.s.data.algtype \in {1, 2}
   /\ ret.s.data.version <= 2
   /\ HostSupported)
    => IF ret.s.data.context # TargetContext
         THEN /\ ret.err = "ContextMismatch"
              /\ ret.ctxErr = [currentContext |-> TargetContext,
                               expectedContext |-> ret.s.data.context]
              /\ NothingChanged
         ELSE ret.err # "ContextMismatch"

\* an envelope of context Sop was refused by a target of context Object
C4_Witness ==
  /\ DecodedEnvelope
  /\ ret.s.data.context = "Sop"
  /\ TargetContext = "Object"
  /\ ret.err = "ContextMismatch"
  /\ ret.ctxErr.currentContext = "Object"

\* C5: a decode of an envelope of a major version above the supported one
\* (algtype not 0) fails with FutureFormat, the target's items unchanged
\* and no host primitive, the load included, invoked.
C5_FutureFormatBeforeLoad ==
  (DecodedEnvelope /\ ret.s.data.version > CURRENT_FORMAT_VERSION[1] /\ ret.s.data.algtype # 0)
    => /\ ret.err = "FutureFormat"
       /\ AllItems(items, ret.target) = AllItems(ret.itemsBefore, ret.target)
       /\ items = ret.itemsBefore
       /\ ret.events = <<>>

\* an envelope of major version 3 that passes every other gate was refused
C5_Witness ==
  /\ DecodedEnvelope
  /\ ViolatedGates = {2}
  /\ HostSupported
  /\ ret.err = "FutureFormat"

(***************************************************************************)
(* Properties of the round trip and of the inputs decode and encode        *)
(* refuse.                                                                 *)
(***************************************************************************)
\* the decode that has just been made was given the string the last encode
\* of this session returned, unchanged
DecodedAsSent == ret.op = "decode" /\ wire.nodes # {} /\ ret.s = wire.str

\* the node items among the encoded ones, and among the returned ones
EncodedNodes == {i \in wire.nodes : ItemIn(ret.itemsBefore, i).node}

CreatedNodes == {i \in Range(ret.created) : ItemIn(items, i).node}

\* f maps each encoded node to a returned node of the same type, name and
\* parameter value, placed in the target, whose inputs are the images of
\* the encoded inputs of the original
Reproduces(f) ==
  /\ \A i, j \in EncodedNodes : f[i] = f[j] => i = j
  /\ {f[i] : i \in EncodedNodes} = CreatedNodes
  /\ \A i \in EncodedNodes :
       LET o == ItemIn(ret.itemsBefore, i)
           n == ItemIn(items, f[i])
       IN /\ n.type = o.type
          /\ n.name = o.name
          /\ n.parm = o.parm
          /\ n.parent = ret.target
          /\ n.inputs = {f[j] : j \in o.inputs \cap EncodedNodes}

C7_CorruptPayload ==
  (ret.op = "decode" /\ ~(ret.s.b64ok /\ ret.s.bz2ok /\ ret.s.jsonok))
    => /\ ret.err = "CorruptPayload"
       /\ ret.ctxErr = NoContextError
       /\ NothingChanged
       /\ ret.events = <<>>
       /\ ret.created = <<>>

\* a string that decodes and decompresses but does not parse, and whose
\* envelope would have failed a gate, was refused as corrupt
C7_Witness ==
  /\ ret.op = "decode"
  /\ ret.s.b64ok /\ ret.s.bz2ok /\ ~ret.s.jsonok
  /\ ret.s.data # NoEnvelope
  /\ ret.s.data.context # TargetContext
  /\ ret.err = "CorruptPayload"

\* C8: an encode of the empty list fails with EmptyInput, and an encode of
\* a list with an item whose parent is not the first item's parent fails
\* with HeterogeneousParent; neither returns a string, creates a temp file
\* or invokes a host primitive.
C8_InvalidInputRefused ==
  /\ (ret.op = "encode" /\ ret.nodes = <<>>) => ret.err = "EmptyInput"
  /\ (/\ ret.op = "encode"
      /\ ret.nodes # <<>>
      /\ \E i \in 1..Len(ret.nodes) : ParentOf(ret.nodes[i]) # ParentOf(ret.nodes[1]))
       => ret.err = "HeterogeneousParent"
  /\ (ret.op = "encode" /\ ret.err \in {"EmptyInput", "HeterogeneousParent"})
       => (ret.out = NoString /\ ret.events = <<>> /\ tempFiles = {})

\* a list of two items of different parents was refused
C8_Witness ==
  /\ ret.op = "encode"
  /\ Len(ret.nodes) = 2
  /\ ParentOf(ret.nodes[2]) # ParentOf(ret.nodes[1])
  /\ ret.err = "HeterogeneousParent"
  /\ ret.out = NoString

(***************************************************************************)
(* Properties of the result of decode and of the assets encode embeds.     *)
(***************************************************************************)
\* the ids of the items of a scene
Ids(its) == {r.id : r \in its}

IsUnder(path, root) ==
  /\ StartsWith(path, root)
  /\ (Len(path) = Len(root) \/ root[Len(root)] = "/" \/ path[Len(root) + 1] = "/")

\* C10: with transferAssets set, for each scanned node that has a
\* definition, a record of its type is in hdaList exactly when the
\* definition's library file is not under the install root.
C10_EmbeddedIffOutsideRoot ==
  (ret.op = "encode" /\ ret.err = "" /\ ret.transfer)
    => \A i \in Range(ScanList(items, NodesOnly(items, ret.nodes))) :
         LET type == ItemIn(items, i).type
             definition == CurrentDef(defs, TypeCategory(type), type)
             embedded == \E k \in 1..Len(ret.out.data.hdaList) :
                            /\ ret.out.data.hdaList[k].type = type
                            /\ ret.out.data.hdaList[k].category = TypeCategory(type)
         IN definition # NoDef => (embedded <=> ~IsUnder(definition.lib, hfs))

(***************************************************************************)
(* Properties of the installation of the embedded definitions.             *)
(***************************************************************************)
\* the decode that has just been made passed the gates and its install
\* loop ran to its end
InstallCompleted ==
  /\ DecodedEnvelope
  /\ HostSupported
  /\ ViolatedGates = {}
  /\ ret.fault.at \notin {"installFile", "setIsPreferred"}

\* the records of the decoded envelope
DecodedRecords == ret.s.data.hdaList

\* the number of occurrences of x in q
Count(q, x) == Cardinality({k \in 1..Len(q) : q[k] = x})

\* C11: once the install loop has run with ignoreHdasIfAlreadyDefined set,
\* running it again on the same hdaList, whatever the host would do to an
\* install, raises no error, installs nothing (no temp file, no host call)
\* and leaves the registry as the first run left it.
C11_SecondInstallIsNoOp ==
  (InstallCompleted /\ ret.ignore)
    => \A fault \in {NoFault} \cup FaultsAt({"installFile", "setIsPreferred"},
                                            Len(DecodedRecords)) :
         LET again == InstallAssets(DecodedRecords, 1, defs, tempFiles, TRUE, ret.force,
                                    fault, 0)
         IN again.err = "" /\ again.defs = defs /\ again.events = <<>>

\* the first run installed a definition
C11_Witness ==
  /\ InstallCompleted
  /\ ret.ignore
  /\ Len(defs) > Len(ret.defsBefore)
  /\ InstallAssets(DecodedRecords, 1, defs, tempFiles, TRUE, ret.force, NoFault, 0).defs = defs

\* the positions of hdaList whose record is the first of a type the
\* registry did not define before the call
FirstOfNewType ==
  {k \in 1..Len(DecodedRecords) :
     /\ ~NodeTypeExists(ret.defsBefore, DecodedRecords[k].category, DecodedRecords[k].type)
     /\ \A j \in 1..(k - 1) : DecodedRecords[j].type # DecodedRecords[k].type
                              \/ DecodedRecords[j].category # DecodedRecords[k].category}

\* C12: with ignoreHdasIfAlreadyDefined set, a record of a type that is
\* already defined (before the call, or by an earlier record of the same
\* hdaList) is skipped: the definitions the registry had are kept as they
\* were, preferred flags included, one definition is added per new type and
\* none per skipped record, no temp file is created for a skipped record
\* and the loop raises no error (the call goes on to snapshot the target).
C12_DefinedTypeSkipped ==
  (InstallCompleted /\ ret.ignore)
    => /\ Count(ret.events, "allItems") >= 1
       /\ SubSeq(defs, 1, Len(ret.defsBefore)) = ret.defsBefore
       /\ Len(defs) = Len(ret.defsBefore) + Cardinality(FirstOfNewType)
       /\ \A i \in (Len(ret.defsBefore) + 1)..Len(defs) :
            \E k \in FirstOfNewType : /\ defs[i].type = DecodedRecords[k].type
                                      /\ defs[i].category = DecodedRecords[k].category
       /\ Count(ret.events, "installFile") = Cardinality(FirstOfNewType)
       /\ Count(ret.events, "mkstemp") =
            Cardinality(FirstOfNewType) + (IF ret.s.data.code.b64ok THEN 1 ELSE 0)

\* an hdaList with two records of one type the registry did not define:
\* the first was installed, the second skipped
C12_Witness ==
  /\ InstallCompleted
  /\ ret.ignore
  /\ Len(DecodedRecords) = 2
  /\ DecodedRecords[1].type = DecodedRecords[2].type
  /\ Len(defs) = Len(ret.defsBefore) + 1
  /\ Count(ret.events, "installFile") = 1

\* the positions of hdaList whose record the install loop does not skip
InstalledPositions ==
  IF ret.ignore THEN FirstOfNewType ELSE 1..Len(DecodedRecords)

\* the definitions the registry has gained by the call
NewDefs == SubSeq(defs, Len(ret.defsBefore) + 1, Len(defs))

KeepsDefinitions(d0, d) ==
  /\ Len(d) >= Len(d0)
  /\ \A k \in 1..Len(d0) : [d[k] EXCEPT !.preferred = FALSE] = [d0[k] EXCEPT !.preferred = FALSE]

\* C14: installation is not transactional: when a decode fails after the
\* gates, because the install of a record raises, or marking it preferred
\* does, or the code does not decode, or the load raises, every definition
\* installed before the failure is in the registry when the error reaches
\* the caller; no call removes a definition.
C14_InstallsSurviveFailure ==
  /\ KeepsDefinitions(ret.defsBefore, defs)
  /\ (/\ DecodedEnvelope
      /\ HostSupported
      /\ ViolatedGates = {}
      /\ ret.err # "")
       => Len(NewDefs) =
            (CASE ret.fault.at = "installFile" -> ret.fault.n - 1
               [] ret.fault.at = "setIsPreferred" -> ret.fault.n
               [] OTHER -> Cardinality(InstalledPositions))

\* the install of the second record raised: the first record's definition
\* is installed when the call has failed
C14_Witness ==
  /\ DecodedEnvelope
  /\ ret.err = "HostError"
  /\ ret.fault = [at |-> "installFile", n |-> 2]
  /\ Len(NewDefs) = 1
  /\ NewDefs[1].type = DecodedRecords[1].type

\* the events of a call that invoke the host to install, and to load
InstallEvents == {"installFile", "setIsPreferred"}

LoadEvents == {"allItems", "loadChildrenFromFile", "loadItemsFromFile"}

\* C15: a decode that fails with CorruptPayload, UnsupportedAlgorithm,
\* FutureFormat, ContextMismatch or ChecksumMismatch leaves the registry,
\* the preferred flags and the items as they were; an install happens only
\* in a call that passed the four gates, and before the snapshot and the
\* load of that call.
C15_NoPartialLoad ==
  /\ (/\ ret.op = "decode"
      /\ ret.err \in {"CorruptPayload", "UnsupportedAlgorithm", "FutureFormat",
                      "ContextMismatch", "ChecksumMismatch"})
       => (NothingChanged /\ ret.events = <<>> /\ ret.created = <<>>)
  /\ (ret.op = "decode" /\ (ret.events # <<>> \/ ~NothingChanged))
       => (DecodedEnvelope /\ HostSupported /\ ViolatedGates = {})
  /\ \A i, j \in 1..Len(ret.events) :
       (ret.events[i] \in InstallEvents /\ ret.events[j] \in LoadEvents) => i < j

\* an envelope that embeds a definition the registry lacks was refused on
\* its checksum and nothing was installed
C15_Witness ==
  /\ DecodedEnvelope
  /\ ret.err = "ChecksumMismatch"
  /\ DecodedRecords # <<>>
  /\ ~NodeTypeExists(defs, DecodedRecords[1].category, DecodedRecords[1].type)
  /\ NothingChanged

\* the number of temp files that exist after the first n events of the call
OpenAfter(n) ==
  Count(SubSeq(ret.events, 1, n), "mkstemp") - Count(SubSeq(ret.events, 1, n), "remove")

\* the events at which the host is invoked on the call's temp file
FileEvents ==
  {"copyToHDAFile", "saveChildrenToFile", "saveItemsToFile", "installFile", "setIsPreferred",
   "loadChildrenFromFile", "loadItemsFromFile"}

\* C16: no temp file exists when a call of encode or decode has exited,
\* whether it returned or raised, the host primitive that was invoked on
\* the file having raised included: each temp file a call creates is
\* removed before the next is created and before the call exits, and the
\* host is invoked on a file only while the file exists.
C16_TempFilesRemoved ==
  /\ tempFiles = {}
  /\ OpenAfter(Len(ret.events)) = 0
  /\ \A n \in 1..Len(ret.events) :
       /\ OpenAfter(n) \in {0, 1}
       /\ ret.events[n] \in FileEvents => OpenAfter(n) = 1

\* the host raised while a temp file existed and none is left
C16_Witness ==
  /\ ret.err = "HostError"
  /\ ret.fault.at \in {"copyToHDAFile", "save", "installFile", "setIsPreferred", "load"}
  /\ Count(ret.events, "mkstemp") >= 1
  /\ tempFiles = {}

(***************************************************************************)
(* Properties of the fields of the envelope and of the host version.       *)
(***************************************************************************)
\* other values of the informational fields of an envelope: a later minor
\* version, the version of a host of another band
OtherInformation(data) ==
  {[minor |-> m, houver |-> h] :
     m \in {data.minor, data.minor + 1},
     h \in {data.houver, <<data.houver[1] + 7, 5, 1>>}} \ {[minor |-> data.minor,
                                                              houver |-> data.houver]}

\* a decode is made of an envelope: made instead, in the same state, of an
\* envelope that differs in version.minor or houver only, it has the same
\* outcome; and an envelope of a major version up to 2 is not refused as
\* FutureFormat
InformationIgnored ==
  (ret.op = "none" /\ ret'.op = "decode" /\ ret'.s.b64ok /\ ret'.s.bz2ok /\ ret'.s.jsonok)
    => /\ \A info \in OtherInformation(ret'.s.data) :
            \E r \in {deserializeStringToNodes(
                        [ret'.s EXCEPT !.data.minor = info.minor, !.data.houver = info.houver],
                        ret'.target, ret'.ignore, ret'.force, ret'.fault)} :
               /\ r.err = ret'.err
               /\ r.ctxErr = ret'.ctxErr
               /\ r.created = ret'.created
               /\ r.events = ret'.events
               /\ r.items = items'
               /\ r.defs = defs'
       /\ ret'.s.data.version <= CURRENT_FORMAT_VERSION[1] => ret'.err # "FutureFormat"

\* C17: version.minor and houver do not influence decode: two envelopes
\* that differ in them only, decoded into the same target in the same
\* environment, have the same outcome (error, created items, installs);
\* and every major version up to 2 passes the version gate.
C17_InformationalFieldsIgnored == [][InformationIgnored]_vars

\* an envelope written by a host of another version than this one (and of
\* an older major format version in one case) was decoded and created items
C17_Witness ==
  /\ DecodedEnvelope
  /\ ret.s.data.houver # applicationVersion
  /\ ret.s.data.version < CURRENT_FORMAT_VERSION[1]
  /\ ret.err = ""
  /\ ret.created # <<>>
  /\ Len(NewDefs) > 0

\* C18 as stated, in what it says of the way the call ends: a decode of a
\* well-formed envelope whose algtype is neither 1 nor 2 fails (with
\* UnsupportedAlgorithm, says the claim) and in no case returns normally.
C18_UnknownGenerationRejected ==
  (DecodedEnvelope /\ ret.s.data.algtype \notin {1, 2}) => ret.err # ""

\* the band of a host major version, as the tool's documentation of the
\* two encodings gives it
BandOf(major) == IF major >= 16 THEN 2 ELSE IF major >= 10 THEN 1 ELSE 0

\* the inputs of the encode that has just been made passed the checks on
\* the items
EncodedValidInput ==
  /\ ret.op = "encode"
  /\ ret.nodes # <<>>
  /\ \A i \in 1..Len(ret.nodes) : ParentOf(ret.nodes[i]) = ParentOf(ret.nodes[1])

\* C19: encode selects the algorithm generation from the host major
\* version alone: 1 for 10..15 (saving with saveChildrenToFile), 2 for 16
\* and above (saving with saveItemsToFile); on a host below 10 it fails
\* with no envelope and no host call; no envelope has algtype 0.  (The
\* selection is a function of the version alone: its table is evaluated
\* before the first call.)
C19_GenerationFromHostBand ==
  /\ calls = 0 =>
       \A major \in 0..MaxMajor : \A minor \in {0, 5} :
         AlgTypeFor(<<major, minor, 0>>) = BandOf(major)
  /\ EncodedValidInput =>
       IF hostMajor < 10
         THEN ret.err = "UnsupportedHostVersion" /\ ret.out = NoString /\ ret.events = <<>>
         ELSE ret.err \in {"", "HostError"}
  /\ (ret.op = "encode" /\ ret.err = "") =>
       /\ ret.out.data.algtype = BandOf(hostMajor)
       /\ ret.out.data.algtype \in {1, 2}
       /\ Count(ret.events, "saveChildrenToFile") = (IF hostMajor <= 15 THEN 1 ELSE 0)
       /\ Count(ret.events, "saveItemsToFile") = (IF hostMajor >= 16 THEN 1 ELSE 0)

\* a host of major version 16 has encoded with generation 2
C19_Witness ==
  /\ ret.op = "encode"
  /\ ret.err = ""
  /\ hostMajor = 16
  /\ ret.out.data.algtype = 2
  /\ Count(ret.events, "saveItemsToFile") = 1

\* C20: getChildContext dispatches on the host major version into one
\* band: 16 and above reads the context through the container's type,
\* 10..15 reads it from the container, any other fails with
\* UnsupportedHostVersion and reads neither; encode and decode resolve the
\* context through the band of the running host.  (The dispatch is
\* evaluated on the containers of the scene before the first call.)
C20_ContextByHostBand ==
  /\ calls = 0 =>
       \A major \in 0..MaxMajor : \A node \in Containers :
         \E context \in {getChildContext(node, <<major, 0, 0>>)} :
            CASE BandOf(major) = 2 ->
                   /\ context.ok
                   /\ context.via = "type.childTypeCategory"
                   /\ context.name = ChildCategoryName(node)
              [] BandOf(major) = 1 ->
                   /\ context.ok
                   /\ context.via = "node.childTypeCategory"
                   /\ context.name = ChildCategoryName(node)
              [] OTHER -> ~context.ok /\ context.via = "none"
  /\ (ret.op = "encode" /\ ret.err = "") =>
       /\ ret.events[Len(ret.events)] =
            (IF hostMajor >= 16 THEN "type.childTypeCategory" ELSE "node.childTypeCategory")
       /\ ret.out.data.context = ChildCategoryName(ParentOf(ret.nodes[1]))
  /\ (DecodedEnvelope /\ ViolatedGates \cap {1, 2} = {} /\ ~HostSupported) =>
       (ret.err = "UnsupportedHostVersion" /\ ret.events = <<>> /\ NothingChanged)

\* on a host below major version 10, a decode of an envelope that passes
\* the algorithm and version gates failed on resolving the context
C20_Witness ==
  /\ DecodedEnvelope
  /\ hostMajor < 10
  /\ ViolatedGates = {}
  /\ ret.err = "UnsupportedHostVersion"

(***************************************************************************)
(* Properties of the envelope encode returns.                              *)
(***************************************************************************)
\* the call that has just been made is an encode that returned a string
Encoded == ret.op = "encode" /\ ret.err = ""

\* the envelope of the string the encode returned
EncodedEnvelope == ret.out.data

\* the nodes the asset collection visits: each node item of the list, in
\* the order of the list, followed by its nested nodes
Visited == ScanList(items, NodesOnly(items, ret.nodes))

\* node i has a definition whose library file is not in the directory tree
\* of the install root
DefinedOutsideRoot(i) ==
  LET type == ItemIn(items, i).type
      definition == CurrentDef(defs, TypeCategory(type), type)
  IN definition # NoDef /\ ~IsUnder(definition.lib, hfs)

\* C21 as stated: with transferAssets set, hdaList holds one record per
\* visited node whose definition lies outside the install root, in the
\* order of the visit and with nothing deduplicated.
C21_OneRecordPerExternalNode ==
  (Encoded /\ ret.transfer)
    => LET external == SelectSeq(Visited, DefinedOutsideRoot)
       IN /\ Len(EncodedEnvelope.hdaList) = Len(external)
          /\ \A k \in 1..Len(external) :
               /\ EncodedEnvelope.hdaList[k].type = ItemIn(items, external[k]).type
               /\ EncodedEnvelope.hdaList[k].category =
                    TypeCategory(ItemIn(items, external[k]).type)

\* C22: hdaList is empty when no visited node has a definition outside the
\* install root, and when transferAssets is off whatever the definitions;
\* a decode of an envelope with an empty hdaList installs no definition
\* and changes no preferred flag; and the decode of the string of a single
\* encoded node with an empty hdaList into an empty container of the
\* envelope's context (supported host, the host raising nothing) returns
\* exactly one item, of the type, name and parameter value of the original.
C22_NoAssetsNoInstall ==
  /\ (Encoded /\ (~ret.transfer \/ \A k \in 1..Len(Visited) : ~DefinedOutsideRoot(Visited[k])))
       => EncodedEnvelope.hdaList = <<>>
  /\ (DecodedEnvelope /\ ret.s.data.hdaList = <<>>)
       => (defs = ret.defsBefore /\ Count(ret.events, "installFile") = 0)
  /\ (/\ DecodedAsSent
      /\ ret.s.data.hdaList = <<>>
      /\ Cardinality(wire.nodes) = 1
      /\ EncodedNodes = wire.nodes
      /\ AllItems(ret.itemsBefore, ret.target) = {}
      /\ TargetContext = ret.s.data.context
      /\ HostSupported
      /\ ret.fault = NoFault)
       => /\ ret.err = ""
          /\ Len(ret.created) = 1
          /\ \A i \in wire.nodes :
               LET o == ItemIn(ret.itemsBefore, i)
                   n == ItemIn(items, ret.created[1])
               IN n.type = o.type /\ n.name = o.name /\ n.parm = o.parm /\ n.parent = ret.target

\* node b, whose definition is outside the install root, was encoded with
\* transferAssets off and decoded into the empty container geo2: one item
\* was returned and nothing installed
C22_Witness ==
  /\ DecodedAsSent
  /\ ret.s.data.hdaList = <<>>
  /\ Cardinality(wire.nodes) = 1
  /\ \A i \in wire.nodes : DefinedOutsideRoot(i)
  /\ AllItems(ret.itemsBefore, ret.target) = {}
  /\ ret.err = ""
  /\ Len(ret.created) = 1
  /\ defs = ret.defsBefore

\* the errors of the four gates
GateErrors == {"UnsupportedAlgorithm", "FutureFormat", "ContextMismatch", "ChecksumMismatch"}

\* C25: every envelope encode returns is self-consistent: chsum is the
\* digest of its code, version and version.minor are CURRENT_FORMAT_VERSION,
\* algtype is 1 or 2 and context is the context of the items' parent; the
\* string decoded unchanged by the same session into a target of that
\* context passes the four gates.
C25_EnvelopeSelfConsistent ==
  /\ Encoded =>
       /\ EncodedEnvelope.chsum = sha1hex(EncodedEnvelope.code)
       /\ EncodedEnvelope.version = CURRENT_FORMAT_VERSION[1]
       /\ EncodedEnvelope.minor = CURRENT_FORMAT_VERSION[2]
       /\ EncodedEnvelope.algtype \in {1, 2}
       /\ EncodedEnvelope.context =
            getChildContext(ParentOf(ret.nodes[1]), applicationVersion).name
       /\ wire.str = ret.out
  /\ (DecodedAsSent /\ TargetContext = ret.s.data.context)
       => /\ Gates(ret.s.data, ret.target) = "ok"
          /\ ViolatedGates = {}
          /\ ret.err \notin GateErrors \cup {"CorruptPayload", "UnsupportedHostVersion"}
          /\ ret.fault = NoFault => ret.err = ""

\* the string of an encode was decoded unchanged into a target of its
\* context and went through the gates to the load
C25_Witness ==
  /\ DecodedAsSent
  /\ TargetContext = ret.s.data.context
  /\ ret.s.data.chsum = sha1hex(ret.s.data.code)
  /\ ret.err = ""
  /\ ret.created # <<>>

(***************************************************************************)
(* Properties of the load step.                                            *)
(***************************************************************************)
\* the call's events from its last mkstemp on
LastFileEvents ==
  SubSeq(ret.events, Max({k \in 1..Len(ret.events) : ret.events[k] = "mkstemp"}),
         Len(ret.events))

\* C26: a hou.LoadWarning raised by the load primitive does not fail the
\* decode: the warning is printed, the temp file is removed and the call
\* returns the items that are in the target after the step and were not
\* before it (those the primitive created before it raised); any other
\* exception of the load primitive reaches the caller, the temp file
\* removed all the same.
C26_LoadWarningTolerated ==
  /\ (ret.op = "decode" /\ ret.fault.at = "LoadWarning")
       => /\ ret.err = ""
          /\ \E call \in {"loadChildrenFromFile", "loadItemsFromFile"} :
               LastFileEvents = <<"mkstemp", call, "print", "remove", "allItems">>
          /\ tempFiles = {}
          /\ Cardinality(ret.loaded) = ret.fault.n - 1
          /\ Range(ret.created) =
               AllItems(items, ret.target) \ AllItems(ret.itemsBefore, ret.target)
          /\ Len(ret.created) = Cardinality(Range(ret.created))
  /\ (ret.op = "decode" /\ ret.fault.at = "load")
       => /\ ret.err = "HostError"
          /\ ret.created = <<>>
          /\ \E call \in {"loadChildrenFromFile", "loadItemsFromFile"} :
               LastFileEvents = <<"mkstemp", call, "remove">>
          /\ tempFiles = {}
  /\ (ret.op = "decode" /\ Count(ret.events, "print") > 0) => ret.fault.at = "LoadWarning"

\* the load primitive raised a warning after it created an item: the item
\* is returned
C26_Witness ==
  /\ ret.op = "decode"
  /\ ret.fault.at = "LoadWarning"
  /\ ret.fault.n >= 2
  /\ ret.err = ""
  /\ ret.created # <<>>
  /\ tempFiles = {}

(***************************************************************************)
(* Properties of the errors of decode.                                     *)
(***************************************************************************)
\* the error classes of the taxonomy a decode can fail with
DecodeTaxonomy ==
  {"CorruptPayload", "UnsupportedAlgorithm", "FutureFormat", "ChecksumMismatch",
   "ContextMismatch", "UnsupportedHostVersion"}

\* C24 as stated, in its particular case: a decode of a string that
\* decodes, decompresses and parses as JSON to a value that is not an
\* object, or to an object that lacks algtype, version, context, code or
\* chsum, fails with CorruptPayload.
C24_IncompleteIsCorruptPayload ==
  (Unwrapped /\ (~ret.s.data.object \/ ret.s.data.absent \cap RequiredFields # {}))
    => ret.err = "CorruptPayload"

(***************************************************************************)
(* loadNodesFromStringInteractive: the interactive load.  It reads the     *)
(* context the string requires, resolves the parent to load into, offers   *)
(* to create a container when the contexts differ, and hands the string    *)
(* to deserializeStringToNodes.  The call is in two steps: up to the       *)
(* choice of the decode target (`ret.op` is then "loading", `ret.into` the *)
(* target), and the decode with what follows it.  `ret.events` lists what  *)
(* the call shows, offers and invokes.                                     *)
(***************************************************************************)
\* the empty string: base64 of no bytes, which do not decompress
EmptyString == [b64ok |-> TRUE, bz2ok |-> FALSE, jsonok |-> FALSE, data |-> NoEnvelope]

\* a table that maps every context to the type geo
CONTEXT_TO_NODE_TYPE_AlwaysGeo(context) == "geo"

\* lines 356-362, 388: the type of container to create for a context, ""
\* where the table holds None or has no entry
CONTEXT_TO_NODE_TYPE(context) ==
  CASE context = "Sop" -> "geo"
    [] context = "Driver" -> "ropnet"
    [] context = "ChopNet" -> "chopnet"
    [] context = "Vop" -> "vopnet"
    [] OTHER -> ""

\* lines 365-371: the unwrapping or the read of data['context'] raises
ParseFails(s) ==
  UnwrapFailure(s) # "none" \/ ~s.data.object \/ "context" \in s.data.absent

\* line 403: parentNode.createNode(nodeTypeName, "loaded_nodes")
createNode(its, parentNode, nodeTypeName) ==
  [id |-> NextId(its), parent |-> parentNode, node |-> TRUE, type |-> nodeTypeName,
   name |-> "loaded_nodes", parm |-> 0, inputs |-> {}]

InteractiveEnd(err, events) ==
  [done |-> TRUE, err |-> err, events |-> events, items |-> items, into |-> Root]

\* lines 351-410: the call up to the decode.  choice is the button the user
\* presses if the prompt is shown (0 is "Create and Load").
InteractiveStart(serializedData, parentNode, choice, fault) ==
  IF serializedData = EmptyString THEN InteractiveEnd("", <<"print:no data">>)
  ELSE IF ParseFails(serializedData) THEN InteractiveEnd("", <<"displayMessage:parse">>)
  ELSE
    LET requiredContext == serializedData.data.context
        currentContext == getChildContext(parentNode, applicationVersion)
        nodeTypeName == CONTEXT_TO_NODE_TYPE(requiredContext)
        newParent == createNode(items, parentNode, nodeTypeName)
    IN IF ~currentContext.ok THEN InteractiveEnd("UnsupportedHostVersion", <<>>)
       ELSE IF currentContext.name = requiredContext
         THEN [done |-> FALSE, err |-> "", events |-> <<>>, items |-> items,
               into |-> parentNode]
       ELSE IF nodeTypeName = ""
         THEN InteractiveEnd("", <<"displayMessage:no container type">>)
       ELSE IF choice # 0
         THEN InteractiveEnd("", <<"prompt", "print:cancelled">>)
       ELSE IF fault.at = "createNode"
         THEN InteractiveEnd("", <<"prompt", "createNode", "displayMessage:create failed">>)
       ELSE [done |-> FALSE, err |-> "", events |-> <<"prompt", "createNode">>,
             items |-> items \cup {newParent}, into |-> newParent.id]

\* lines 412-421: what the call adds to the decode's events
AfterDecode(r, fault) ==
  IF r.err # "" THEN <<"displayMessage:load error">>
  ELSE IF r.created = <<>> THEN <<>>
  ELSE IF fault.at = "layoutChildren"
    THEN <<"layoutChildren", "displayMessage:load error">>
  ELSE <<"layoutChildren">>

Prompt(serializedData, parentNode, choice, fault) ==
  \E r \in {InteractiveStart(serializedData, parentNode, choice, fault)} :
     /\ Idle
     /\ items' = r.items
     /\ ret' = [NoCall EXCEPT !.op = IF r.done THEN "interactive" ELSE "loading",
                              !.err = r.err, !.s = serializedData, !.target = parentNode,
                              !.ignore = TRUE, !.events = r.events,
                              !.fault = IF "createNode" \in Range(r.events) THEN fault
                                        ELSE NoFault,
                              !.itemsBefore = items, !.defsBefore = defs, !.into = r.into]
     /\ calls' = calls + 1
     /\ UNCHANGED <<hostMajor, defs, tempFiles, wire>>
     /\ UNCHANGED snippetVars

Load(fault) ==
  \E r \in {deserializeStringToNodes(ret.s, ret.into, TRUE, FALSE, fault)} :
     /\ ret.op = "loading"
     /\ items' = r.items
     /\ defs' = r.defs
     /\ tempFiles' = LiveAfter(tempFiles, <<>>, r.events)
     /\ ret' = [ret EXCEPT !.op = "interactive", !.err = r.err, !.created = r.created,
                           !.events = @ \o <<"deserializeStringToNodes">> \o r.events
                                        \o AfterDecode(r, fault),
                           !.fault = IF fault.at = "layoutChildren" /\ r.created # <<>>
                                       THEN fault ELSE r.fault,
                           !.old = r.old, !.loaded = r.loaded, !.ctxErr = r.ctxErr]
     /\ UNCHANGED <<hostMajor, wire, calls>>
     /\ UNCHANGED snippetVars

\* the contexts a string can require: those of the scene, one the table
\* maps to another container type, one the table does not hold
ContextVariants(d) == {[d EXCEPT !.context = c] : c \in {"Driver", "Dop"}}

\* the envelopes a pasted string can wrap when d was sent: d, d of the
\* legacy algorithm, of a later format, with a wrong checksum, without its
\* context or its algtype, a value that is no object, d of another context
PastedVariants(d) ==
  {d, [d EXCEPT !.algtype = 0], [d EXCEPT !.version = CURRENT_FORMAT_VERSION[1] + 1],
   [d EXCEPT !.chsum = WrongDigest(d.code)], [d EXCEPT !.absent = {"context"}],
   [d EXCEPT !.absent = {"algtype"}], [d EXCEPT !.object = FALSE]}
  \cup ContextVariants(d)

\* the strings a user can paste when s was sent
Pasted(s) ==
  {EmptyString, [s EXCEPT !.b64ok = FALSE], [s EXCEPT !.jsonok = FALSE]}
  \cup (IF UnwrapFailure(s) = "none"
          THEN {WrapEnvelope(d) : d \in PastedVariants(s.data)}
          ELSE {})

\* whether the call gets as far as the prompt
Prompts(s, parentNode) ==
  /\ s # EmptyString
  /\ ~ParseFails(s)
  /\ HostSupported
  /\ ChildCategoryName(parentNode) # s.data.context
  /\ CONTEXT_TO_NODE_TYPE(s.data.context) # ""

\* the faults that can occur in the decode of the interactive load, and
\* after it
LoadFaults ==
  IF PassesGates(ret.s, ret.into)
    THEN DecodeFaultsFor(ret.s.data, FALSE) \cup {[at |-> "layoutChildren", n |-> 1]}
    ELSE {NoFault}

\* A session that encodes and loads interactively.  The prompt's answer
\* and a failure of createNode are explored only for the calls that get
\* that far.
NextInteractive ==
  \/ /\ Idle
     /\ \E nodes \in Selections :
          IF PassesValidation(nodes)
            THEN \E transferAssets \in BOOLEAN : Encode(nodes, transferAssets, NoFault)
            ELSE Encode(nodes, TRUE, NoFault)
  \/ /\ Idle
     /\ \E s \in Pasted(wire.str), parentNode \in Containers :
          IF Prompts(s, parentNode)
            THEN \/ Prompt(s, parentNode, 1, NoFault)
                 \/ \E fault \in {NoFault, [at |-> "createNode", n |-> 1]} :
                      Prompt(s, parentNode, 0, fault)
            ELSE Prompt(s, parentNode, 0, NoFault)
  \/ /\ ret.op = "loading"
     /\ \E fault \in LoadFaults : Load(fault)
  \/ Return

SpecInteractive == Init /\ [][NextInteractive]_vars

(***************************************************************************)
(* Properties of the interactive load.                                     *)
(***************************************************************************)
\* an interactive load has just ended
InteractiveDone == ret.op = "interactive"

\* what the ended interactive load showed, offered and invoked
Shown == Range(ret.events)

\* the interactive load was given a string that unwraps to a well-formed
\* envelope
PastedEnvelope ==
  /\ InteractiveDone
  /\ UnwrapFailure(ret.s) = "none"
  /\ ret.s.data.object
  /\ ret.s.data.absent = {}

\* the items the original parent has gained
GainedByParent == AllItems(items, ret.target) \ AllItems(ret.itemsBefore, ret.target)

\* C23 as stated, for the interactive load: a payload with algtype 0 is
\* rejected before its context is interpreted: no message about a missing
\* container type is shown, no prompt is offered, no container is created
\* and the scene is not changed.
C23_LegacyRejectedBeforeOtherFields ==
  (PastedEnvelope /\ ret.s.data.algtype = 0)
    => /\ "prompt" \notin Shown
       /\ "displayMessage:no container type" \notin Shown
       /\ "createNode" \notin Shown
       /\ items = ret.itemsBefore

\* C27 as stated: an interactive load that ends without having loaded a
\* node of the payload leaves no new node, the container it may have
\* created included, under the original parent.
C27_AllOrNothing ==
  (InteractiveDone /\ ret.loaded = {}) => GainedByParent = {}

\* the string of the ended interactive load parsed and the context of the
\* resolved parent was read
ContextsCompared ==
  /\ InteractiveDone
  /\ ret.s # EmptyString
  /\ ~ParseFails(ret.s)
  /\ HostSupported

\* the contexts for which the tool creates a container
MappedContexts == {"Sop", "Driver", "ChopNet", "Vop"}

\* the call made deserializeStringToNodes its next step
DecodeCalled == "deserializeStringToNodes" \in Shown

\* C28: when the context of the resolved parent differs from the
\* payload's: for a context with no mapped container type (Object, or one
\* the table does not hold) an error is shown, nothing is created and
\* deserializeStringToNodes is not called; otherwise the prompt is shown,
\* and on Cancel nothing is created and deserializeStringToNodes is not
\* called; a container is created only on "Create and Load", it is of the
\* mapped type, named loaded_nodes, under the current parent, and is the
\* decode target.  When the contexts match no prompt is shown, no
\* container is created and the decode target is the resolved parent.
C28_ContainerOnlyOnCreateAndLoad ==
  /\ (ContextsCompared /\ TargetContext # ret.s.data.context)
       => IF ret.s.data.context \notin MappedContexts
            THEN /\ ret.events = <<"displayMessage:no container type">>
                 /\ NothingChanged
            ELSE /\ ret.events[1] = "prompt"
                 /\ \/ /\ ret.events = <<"prompt", "print:cancelled">>
                       /\ NothingChanged
                    \/ /\ ret.events = <<"prompt", "createNode",
                                         "displayMessage:create failed">>
                       /\ ret.fault.at = "createNode"
                       /\ NothingChanged
                    \/ /\ ret.events[2] = "createNode"
                       /\ ret.events[3] = "deserializeStringToNodes"
                       /\ GainedByParent = {ret.into}
                       /\ ItemIn(items, ret.into).name = "loaded_nodes"
                       /\ ItemIn(items, ret.into).node
                       /\ ItemIn(items, ret.into).type =
                            (CASE ret.s.data.context = "Sop" -> "geo"
                               [] ret.s.data.context = "Driver" -> "ropnet"
                               [] ret.s.data.context = "ChopNet" -> "chopnet"
                               [] ret.s.data.context = "Vop" -> "vopnet")
                       /\ ChildCategoryName(ret.into) = ret.s.data.context
                       /\ \A i \in Range(ret.created) : ItemIn(items, i).parent = ret.into
  /\ (ContextsCompared /\ TargetContext = ret.s.data.context)
       => /\ ret.events[1] = "deserializeStringToNodes"
          /\ "prompt" \notin Shown
          /\ "createNode" \notin Shown
          /\ ret.into = ret.target
          /\ Range(ret.created) \subseteq GainedByParent
          /\ GainedByParent \subseteq ret.loaded
  /\ (InteractiveDone /\ "createNode" \in Shown)
       => (ContextsCompared /\ TargetContext # ret.s.data.context /\ ret.events[1] = "prompt")
  /\ (InteractiveDone /\ ~ContextsCompared) => (~DecodeCalled /\ NothingChanged)

\* a string of context Sop was pasted into /obj: the prompt was answered
\* "Create and Load", and the nodes were loaded into the new geo container
C28_Witness ==
  /\ ContextsCompared
  /\ TargetContext = "Object"
  /\ ret.s.data.context = "Sop"
  /\ "createNode" \in Shown
  /\ ret.into # ret.target
  /\ ItemIn(items, ret.into).type = "geo"
  /\ ret.err = ""
  /\ ret.created # <<>>

(***************************************************************************)
(* SnippetIOManager (core/snippetiomanager.py): one JSON database file     *)
(* per path, the path kept in the settings, and up to MAX_BACKUPS rolling  *)
(* backups of each database.  A database content is the dictionary that    *)
(* json.dump writes: its version and its list of snippets.                 *)
(***************************************************************************)
\* saves of one behaviour
MaxSaves == 6

\* the snippet collections handed to saveSnippetsToDatabase
SnippetLists == {<<>>, <<"s1">>}

\* setSnippetsDatabasePath(dbPath): a missing file is created from the class
\* attribute, then the path is stored in the settings
setSnippetsDatabasePath(files, template, dbPath) ==
  [files |-> IF files[dbPath] = NoFile THEN [files EXCEPT ![dbPath] = template] ELSE files,
   setting |-> dbPath,
   written |-> IF files[dbPath] = NoFile THEN template ELSE NoFile]

\* getSnippetsDatabasePath(): the stored path when its file exists, else the
\* default path, which is stored (and its file created) on the way
getSnippetsDatabasePath(files, setting, template) ==
  IF setting # NoPath /\ files[setting] # NoFile
    THEN [path |-> setting, files |-> files, setting |-> setting, written |-> NoFile]
    ELSE [path |-> DefaultDb] @@ setSnippetsDatabasePath(files, template, DefaultDb)

\* the loop of _manageBackups from bak<i> down to bak2, on the backup files b
\* of one database; os.rename raises when the fault names this step
RECURSIVE RollFromTheNewest(_, _, _)
RollFromTheNewest(b, i, fault) ==
  IF i < 2 THEN [b |-> b, raised |-> FALSE]
  ELSE LET k == MAX_BACKUPS + 2 - i
       IN IF b[k - 1] # NoFile
            THEN RollFromTheNewest([b EXCEPT ![k] = b[k - 1], ![k - 1] = NoFile], i - 1, fault)
            ELSE RollFromTheNewest(b, i - 1, fault)

RECURSIVE Roll(_, _, _)
Roll(b, i, fault) ==
  IF i < 2 THEN [b |-> b, raised |-> FALSE]
  ELSE IF b[i - 1] # NoFile
    THEN IF fault.at = "rename" /\ fault.n = i
           THEN [b |-> [b EXCEPT ![i] = NoFile], raised |-> TRUE]
           ELSE Roll([b EXCEPT ![i] = b[i - 1], ![i - 1] = NoFile], i - 1, fault)
    ELSE Roll(b, i - 1, fault)

\* _manageBackups(dbPath) on the backup files b of the database whose
\* content is db: `warned` when the backup directory cannot be made (the
\* function returns), `raised` when a later file operation raises
manageBackups(b, db, fault) ==
  IF fault.at = "makedirs" THEN [b |-> b, warned |-> TRUE, raised |-> FALSE]
  ELSE LET r == Roll(b, MAX_BACKUPS, fault)
       IN IF r.raised THEN [b |-> r.b, warned |-> FALSE, raised |-> TRUE]
          ELSE IF db = NoFile THEN [b |-> r.b, warned |-> FALSE, raised |-> FALSE]
          ELSE IF fault.at = "copy2" THEN [b |-> r.b, warned |-> FALSE, raised |-> TRUE]
          ELSE [b |-> [r.b EXCEPT ![1] = db], warned |-> FALSE, raised |-> FALSE]

\* saveSnippetsToDatabase(snippetData): the path, the backups, the outgoing
\* dictionary -- which IS the class attribute, so the assignment of its
\* "snippets" changes the attribute -- and the write through a temp file
saveSnippetsToDatabase(files, setting, template, bk, snippetData, fault) ==
  LET g == getSnippetsDatabasePath(files, setting, template)
      dbPath == g.path
      m == manageBackups(bk[dbPath], g.files[dbPath], fault)
      outSnippetData == [template EXCEPT !.snippets = snippetData]
      failed == fault.at = "write"
  IN [path |-> dbPath,
      before |-> g.files[dbPath],
      files |-> IF failed THEN g.files ELSE [g.files EXCEPT ![dbPath] = outSnippetData],
      setting |-> g.setting,
      template |-> outSnippetData,
      backups |-> [bk EXCEPT ![dbPath] = m.b],
      written |-> g.written,
      backupFailed |-> m.warned \/ m.raised,
      shown |-> m.warned \/ m.raised \/ failed,
      ok |-> ~failed]

\* loadSnippetsFromDatabase(): the snippets of the database at the path
loadSnippetsFromDatabase(files, setting, template) ==
  LET g == getSnippetsDatabasePath(files, setting, template)
  IN g @@ [out |-> g.files[g.path].snippets]

\* the failures of the file system during a save
SnippetFaults ==
  {NoSnippetFault, [at |-> "makedirs", n |-> 0], [at |-> "copy2", n |-> 0],
   [at |-> "write", n |-> 0]}
  \cup {[at |-> "rename", n |-> i] : i \in 2..MAX_BACKUPS}

BackupFaults == {"makedirs", "rename", "copy2"}

SetPath(dbPath) ==
  \E r \in {setSnippetsDatabasePath(dbFiles, EMPTY_SNIPPETS_DATA, dbPath)} :
     /\ dbFiles' = r.files
     /\ settingsPath' = r.setting
     /\ snip' = [NoSnippetCall EXCEPT !.op = "setSnippetsDatabasePath", !.path = dbPath,
                                      !.written = r.written]
     /\ UNCHANGED <<EMPTY_SNIPPETS_DATA, backups, saved, intact, saves>>
     /\ UNCHANGED <<hostMajor, items, defs, tempFiles, wire, ret, calls>>

\* a failure is drawn only where the call it names is made, and the backups
\* of a database are failed once; `saved` lists, newest first, the content
\* each save found in the database, for as long as every backup step on the
\* database has succeeded (`intact`)
Save(snippetData, fault) ==
  /\ saves < MaxSaves
  /\ \E r \in {saveSnippetsToDatabase(dbFiles, settingsPath, EMPTY_SNIPPETS_DATA,
                                      backups, snippetData, fault)} :
     /\ fault.at \in BackupFaults => r.backupFailed /\ intact[r.path]
     /\ dbFiles' = r.files
     /\ settingsPath' = r.setting
     /\ EMPTY_SNIPPETS_DATA' = r.template
     /\ backups' = r.backups
     /\ saved' = [saved EXCEPT ![r.path] = IF intact[r.path] /\ ~r.backupFailed
                                            THEN <<r.before>> \o @ ELSE <<>>]
     /\ intact' = [intact EXCEPT ![r.path] = @ /\ ~r.backupFailed]
     /\ snip' = [op |-> "saveSnippetsToDatabase", path |-> r.path, written |-> r.written,
                 fault |-> fault, shown |-> r.shown, ok |-> r.ok, out |-> <<>>]
     /\ saves' = saves + 1
     /\ UNCHANGED <<hostMajor, items, defs, tempFiles, wire, ret, calls>>

LoadSnippets ==
  \E r \in {loadSnippetsFromDatabase(dbFiles, settingsPath, EMPTY_SNIPPETS_DATA)} :
     /\ dbFiles' = r.files
     /\ settingsPath' = r.setting
     /\ snip' = [NoSnippetCall EXCEPT !.op = "loadSnippetsFromDatabase", !.path = r.path,
                                      !.written = r.written, !.out = r.out]
     /\ UNCHANGED <<EMPTY_SNIPPETS_DATA, backups, saved, intact, saves>>
     /\ UNCHANGED <<hostMajor, items, defs, tempFiles, wire, ret, calls>>

NextSnippets ==
  \/ \E dbPath \in DbPaths : SetPath(dbPath)
  \/ \E snippetData \in SnippetLists, fault \in SnippetFaults : Save(snippetData, fault)
  \/ LoadSnippets

\* the snippet manager of one session
InitSnippetSession == Init /\ hostMajor = 16 /\ wire = NoWire

SpecSnippets == InitSnippetSession /\ [][NextSnippets]_vars

C30_TemplateStaysEmpty ==
  /\ EMPTY_SNIPPETS_DATA = EmptySnippetsData
  /\ snip.written # NoFile => snip.written.snippets = <<>>
====
